---------------------------- MODULE Spec2Model ----------------------------
(***************************************************************************)
(* A model of the d2l-pytorch notebooks                                    *)
(*                                                                         *)
(*   - Concise Implementation of Linear Regression (src/unnamed/part_000): *)
(*     the data loader, the training loop and the epoch report;            *)
(*   - Automatic Differentiation (src/Ch04_.../Automatic_Differentiation): *)
(*     the three demonstrations of autograd (2 x^T x, the control-flow     *)
(*     function f, head gradients).                                        *)
(*                                                                         *)
(* The notebooks call torch; the calls are modelled by what torch does:    *)
(* float32 tensors with round-to-nearest-even arithmetic, a tape of        *)
(* recorded operations with their grad_fn, and reverse-mode backward over  *)
(* that tape.                                                              *)
(***************************************************************************)
EXTENDS Integers, Naturals, Sequences, FiniteSets, TLC

(***************************************************************************)
(* float32 (torch.float32, the dtype of every tensor of the notebooks).    *)
(* A value is [s, m, e] and stands for (-1)^s * m * 2^e, with              *)
(* 2^23 <= m < 2^24, or m = 0 and e = 0 for zero.  The exponent is not     *)
(* bounded: the values the notebooks compute stay far from float32's       *)
(* overflow and subnormal ranges.  Every operation rounds to nearest, ties *)
(* to even, as IEEE 754 and the CPU do.                                    *)
(***************************************************************************)
MantBits == 24

RECURSIVE Pow2(_)
Pow2(n) == IF n <= 0 THEN 1 ELSE 2 * Pow2(n - 1)

RECURSIVE BitLen(_)
BitLen(n) == IF n <= 0 THEN 0 ELSE 1 + BitLen(n \div 2)

FZero == [s |-> 0, m |-> 0, e |-> 0]

IsZero(x) == x.m = 0

\* M * 2^e with M < 2^31, rounded to MantBits bits (nearest, ties to even).
RoundNorm(s, M, e) ==
    IF M = 0 THEN FZero
    ELSE LET nb == BitLen(M)
         IN IF nb <= MantBits
            THEN [s |-> s, m |-> M * Pow2(MantBits - nb), e |-> e - (MantBits - nb)]
            ELSE LET k    == nb - MantBits
                     q    == M \div Pow2(k)
                     r    == M % Pow2(k)
                     half == Pow2(k - 1)
                     up   == r > half \/ (r = half /\ q % 2 = 1)
                     m1   == IF up THEN q + 1 ELSE q
                 IN IF m1 = Pow2(MantBits)
                    THEN [s |-> s, m |-> Pow2(MantBits - 1), e |-> e + k + 1]
                    ELSE [s |-> s, m |-> m1, e |-> e + k]

\* The float32 nearest to the integer n (|n| < 2^31).
FInt(n) == IF n < 0 THEN RoundNorm(1, -n, 0) ELSE RoundNorm(0, n, 0)

FNeg(x) == IF IsZero(x) THEN x ELSE [x EXCEPT !.s = 1 - x.s]

FAbs(x) == [x EXCEPT !.s = 0]

\* |x| < |y|
MagLess(x, y) ==
    IF IsZero(y) THEN FALSE
    ELSE IF IsZero(x) THEN TRUE
    ELSE x.e < y.e \/ (x.e = y.e /\ x.m < y.m)

\* x < y
FLess(x, y) ==
    IF x.s = 1 /\ y.s = 0 THEN ~(IsZero(x) /\ IsZero(y))
    ELSE IF x.s = 0 /\ y.s = 1 THEN FALSE
    ELSE IF x.s = 0 THEN MagLess(x, y) ELSE MagLess(y, x)

\* x == y (torch.eq on two finite values: +0 and -0 are equal)
FEq(x, y) == (IsZero(x) /\ IsZero(y)) \/ x = y

\* x * y: the 48-bit product of the mantissas is formed from 12-bit halves,
\* its low bits folded into a sticky bit, then rounded once.
FMul(x, y) ==
    IF IsZero(x) \/ IsZero(y) THEN FZero
    ELSE LET h   == Pow2(12)
             xH  == x.m \div h
             xL  == x.m % h
             yH  == y.m \div h
             yL  == y.m % h
             low == xL * yL
             mid == xH * yL + xL * yH + (low \div h)
             st0 == low % h # 0
             U   == xH * yH * 16 + (mid \div 256)
             st  == st0 \/ (mid % 256 # 0)
             M   == 2 * U + (IF st THEN 1 ELSE 0)
         IN RoundNorm((x.s + y.s) % 2, M, x.e + y.e + 19)

\* x + y with guard, round and sticky bits.
FAdd(x, y) ==
    IF IsZero(x) THEN y
    ELSE IF IsZero(y) THEN x
    ELSE LET big   == IF MagLess(x, y) THEN y ELSE x
             small == IF MagLess(x, y) THEN x ELSE y
             d     == big.e - small.e
         IN IF d >= MantBits + 2 THEN big
            ELSE LET A    == big.m * 8
                     B0   == (small.m * 8) \div Pow2(d)
                     lost == (small.m * 8) % Pow2(d) # 0
                     B    == IF lost /\ B0 % 2 = 0 THEN B0 + 1 ELSE B0
                 IN IF big.s = small.s
                    THEN RoundNorm(big.s, A + B, big.e - 3)
                    ELSE RoundNorm(big.s, A - B, big.e - 3)

FSub(x, y) == FAdd(x, FNeg(y))

\* n more quotient bits of rem / den by long division: <<quotient, remainder>>.
RECURSIVE LongDiv(_, _, _, _)
LongDiv(q, rem, den, n) ==
    IF n = 0 THEN <<q, rem>>
    ELSE IF 2 * rem >= den
         THEN LongDiv(2 * q + 1, 2 * rem - den, den, n - 1)
         ELSE LongDiv(2 * q, 2 * rem, den, n - 1)

\* x / y for y # 0: MantBits + 2 quotient bits and a sticky bit, rounded once.
FDiv(x, y) ==
    IF IsZero(x) THEN FZero
    ELSE LET qr == LongDiv(x.m \div y.m, x.m % y.m, y.m, MantBits + 2)
             M  == 2 * qr[1] + (IF qr[2] # 0 THEN 1 ELSE 0)
         IN RoundNorm((x.s + y.s) % 2, M, x.e - y.e - (MantBits + 3))


(***************************************************************************)
(* Tensors: a shape and the elements in row-major order.  None stands for  *)
(* Python's None (an unset .grad, an omitted argument).                    *)
(***************************************************************************)
None == [shape |-> <<>>, data |-> <<>>]

Tensor(shape, data) == [shape |-> shape, data |-> data]

RECURSIVE Numel(_)
Numel(shape) == IF shape = <<>> THEN 1 ELSE Head(shape) * Numel(Tail(shape))

\* torch.tensor / torch.arange(...).reshape((n, 1)) of integer values
ColVec(ints) == Tensor(<<Len(ints), 1>>, [i \in 1..Len(ints) |-> FInt(ints[i])])

ones_like(t) == Tensor(t.shape, [i \in 1..Len(t.data) |-> FInt(1)])

\* c * t and t * c for a Python number c
TMulC(t, c) == Tensor(t.shape, [i \in 1..Len(t.data) |-> FMul(t.data[i], c)])

\* elementwise u * v, u + v, u - v, u / v, u == v of equal shapes
TMul(u, v) == Tensor(u.shape, [i \in 1..Len(u.data) |-> FMul(u.data[i], v.data[i])])

TAdd(u, v) == Tensor(u.shape, [i \in 1..Len(u.data) |-> FAdd(u.data[i], v.data[i])])

TSub(u, v) == Tensor(u.shape, [i \in 1..Len(u.data) |-> FSub(u.data[i], v.data[i])])

TDiv(u, v) == Tensor(u.shape, [i \in 1..Len(u.data) |-> FDiv(u.data[i], v.data[i])])

TEq(u, v) == [i \in 1..Len(u.data) |-> FEq(u.data[i], v.data[i])]

\* t.t() of a 2-D tensor
TTranspose(t) ==
    LET r == t.shape[1]
        c == t.shape[2]
    IN Tensor(<<c, r>>,
              [k \in 1..(r * c) |-> t.data[((k - 1) % r) * c + ((k - 1) \div r) + 1]])

\* sum over l = 1..k of u[i, l] * v[l, j]
RECURSIVE Dot(_, _, _, _, _)
Dot(u, v, i, j, k) ==
    LET p == FMul(u.data[(i - 1) * u.shape[2] + k], v.data[(k - 1) * v.shape[2] + j])
    IN IF k = 1 THEN p ELSE FAdd(Dot(u, v, i, j, k - 1), p)

\* torch.mm(u, v)
TMm(u, v) ==
    LET r == u.shape[1]
        c == v.shape[2]
    IN Tensor(<<r, c>>,
              [k \in 1..(r * c) |->
                  Dot(u, v, ((k - 1) \div c) + 1, ((k - 1) % c) + 1, u.shape[2])])

\* t.sum() over the first k elements
RECURSIVE SumTo(_, _)
SumTo(t, k) == IF k = 0 THEN FZero ELSE FAdd(SumTo(t, k - 1), t.data[k])

TSum(t) == SumTo(t, Len(t.data))

\* t.norm() of a one-element tensor: sqrt(v * v), which is |v| in float32
norm(t) == FAbs(t.data[1])

\* t.norm().item() == 0: the root of a sum of squares is 0 exactly when every
\* element is
NormIsZero(t) == \A i \in 1..Len(t.data) : IsZero(t.data[i])

(***************************************************************************)
(* The tape autograd records.  A node is one Variable: the operation that  *)
(* made it (op, args, c), its value, its grad_fn (the backward step of     *)
(* that operation, "None" for an input), requires_grad and its .grad.      *)
(* Nodes are appended in execution order, so an operand precedes its       *)
(* result.                                                                 *)
(***************************************************************************)
Node(op, args, c, val, grad_fn, rg) ==
    [op |-> op, args |-> args, c |-> c, val |-> val, grad_fn |-> grad_fn,
     requires_grad |-> rg, grad |-> None]

\* an operation that records no backward step
GradFnNever(t, args, name) == "None"

\* The grad_fn an operation gives its result: recorded only when an operand
\* requires grad.

GradFn(t, args, name) ==
    IF \E k \in 1..Len(args) : t[args[k]].requires_grad THEN name ELSE "None"

RequiresGrad(t, args) == \E k \in 1..Len(args) : t[args[k]].requires_grad

\* Variable(value, requires_grad=...) / torch.randn(...): an input of the graph
Variable(t, val, rg) == Append(t, Node("leaf", <<>>, FZero, val, "None", rg))

\* t[i].t()
OpT(t, i) ==
    Append(t, Node("t", <<i>>, FZero, TTranspose(t[i].val),
                   GradFn(t, <<i>>, "TBackward0"), RequiresGrad(t, <<i>>)))

\* torch.mm(t[i], t[j])
OpMm(t, i, j) ==
    Append(t, Node("mm", <<i, j>>, FZero, TMm(t[i].val, t[j].val),
                   GradFn(t, <<i, j>>, "MmBackward0"), RequiresGrad(t, <<i, j>>)))

\* c * t[i] or t[i] * c for a Python number c
OpMulC(t, i, c) ==
    Append(t, Node("mulc", <<i>>, c, TMulC(t[i].val, c),
                   GradFn(t, <<i>>, "MulBackward0"), RequiresGrad(t, <<i>>)))

\* t[i] * t[j]
OpMul(t, i, j) ==
    Append(t, Node("mul", <<i, j>>, FZero, TMul(t[i].val, t[j].val),
                   GradFn(t, <<i, j>>, "MulBackward0"), RequiresGrad(t, <<i, j>>)))

(***************************************************************************)
(* backward: the gradient of the root flows from the last node of the tape *)
(* to the first; each node's grad_fn hands its gradient to its operands,   *)
(* where gradients arriving by several paths are added.                    *)
(***************************************************************************)
\* a gradient that replaces, instead of joining, what arrived by another path
AccumulateOverwrite(t, g, i, delta) ==
    IF ~t[i].requires_grad THEN g ELSE [g EXCEPT ![i] = delta]

\* add delta to the gradient arriving at node i
Accumulate(t, g, i, delta) ==
    IF ~t[i].requires_grad THEN g
    ELSE [g EXCEPT ![i] = IF @ = None THEN delta ELSE TAdd(@, delta)]

\* a backward step of u * v that reaches only the first operand
GradStepOnePath(t, g, k) ==
    LET n == t[k]
    IN CASE n.op = "mulc" -> Accumulate(t, g, n.args[1], TMulC(g[k], n.c))
         [] n.op = "mul"  -> Accumulate(t, g, n.args[1], TMul(g[k], t[n.args[2]].val))
         [] n.op = "mm"   -> Accumulate(t, g, n.args[1],
                                        TMm(g[k], TTranspose(t[n.args[2]].val)))
         [] n.op = "t"    -> Accumulate(t, g, n.args[1], TTranspose(g[k]))
         [] OTHER         -> g

\* the backward step of node k, given the gradient g[k] of its value
GradStep(t, g, k) ==
    LET n == t[k]
    IN CASE n.op = "mulc" -> Accumulate(t, g, n.args[1], TMulC(g[k], n.c))
         [] n.op = "mul"  ->
              LET g1 == Accumulate(t, g, n.args[1], TMul(g[k], t[n.args[2]].val))
              IN Accumulate(t, g1, n.args[2], TMul(g[k], t[n.args[1]].val))
         [] n.op = "mm"   ->
              LET g1 == Accumulate(t, g, n.args[1],
                                   TMm(g[k], TTranspose(t[n.args[2]].val)))
              IN Accumulate(t, g1, n.args[2],
                            TMm(TTranspose(t[n.args[1]].val), g[k]))
         [] n.op = "t"    -> Accumulate(t, g, n.args[1], TTranspose(g[k]))
         [] OTHER         -> g

RECURSIVE Propagate(_, _, _)
Propagate(t, g, k) ==
    IF k = 0 THEN g
    ELSE IF g[k] = None \/ t[k].grad_fn = "None" THEN Propagate(t, g, k - 1)
    ELSE Propagate(t, GradStep(t, g, k), k - 1)

\* the gradients of every node for the head gradient `head` at node root
Gradients(t, root, head) ==
    Propagate(t, [i \in 1..Len(t) |-> IF i = root THEN head ELSE None], Len(t))

\* a default gradient of zeros
ImplicitZeros(val) == Tensor(val.shape, [i \in 1..Len(val.data) |-> FZero])

\* the default of backward's gradient argument: ones for a one-element root;
\* torch refuses any other root ("grad can be implicitly created only for
\* scalar outputs")

ImplicitGrad(val) == IF Len(val.data) = 1 THEN ones_like(val) ELSE None

\* t[root].backward(gradient): the inputs' .grad take the gradients that
\* reach them (added to what .grad already holds)
backward(t, root, gradient) ==
    LET head == IF gradient = None THEN ImplicitGrad(t[root].val) ELSE gradient
        g    == Gradients(t, root, head)
    IN [i \in 1..Len(t) |->
          IF t[i].op = "leaf" /\ t[i].requires_grad /\ g[i] # None
          THEN [t[i] EXCEPT !.grad = IF @ = None THEN g[i] ELSE TAdd(@, g[i])]
          ELSE t[i]]


(***************************************************************************)
(* Bounds of the model and the inputs drawn within them.                   *)
(***************************************************************************)
\* elements of an input vector are the integers -1..MaxVal
MaxVal == 3

\* input vectors of 2 x^T x have 1..MaxLen elements
MaxLen == 3

\* input vectors of the head-gradient cell have 1..MaxHeadLen elements
MaxHeadLen == 2

\* inputs of f lie in [2^-MaxShift, 4) in magnitude
MaxShift == 2

\* iterations of f's loop the model follows (only the input 0 needs more)
MaxIters == 12

XVals == (-1)..MaxVal

\* torch.arange(4): the x of the notebook
NotebookX == [i \in 1..4 |-> i - 1]

XInputs == UNION {[1..n -> XVals] : n \in 1..MaxLen} \cup {NotebookX}

\* float32 values torch.randn can return: both signs, mantissas 1.0, 1.5,
\* 0x1.49c67ap0 and 0x1.877244p0, and zero
AMants == {8388608, 12582912, 10806077, 12826914}

AInputs ==
    {[s |-> s, m |-> m, e |-> e] :
        s \in {0, 1}, m \in AMants, e \in (-23 - MaxShift)..(-22)} \cup {FZero}

\* the elements of the notebook's head_gradient: 10, 1, 0.1, 0.01 in float32
HeadVals == {[s |-> 0, m |-> 10485760, e |-> -20], [s |-> 0, m |-> 8388608, e |-> -23],
             [s |-> 0, m |-> 13421773, e |-> -27], [s |-> 0, m |-> 10737418, e |-> -30]}

NotebookHead == <<[s |-> 0, m |-> 10485760, e |-> -20], [s |-> 0, m |-> 8388608, e |-> -23],
                  [s |-> 0, m |-> 13421773, e |-> -27], [s |-> 0, m |-> 10737418, e |-> -30]>>

HeadXInputs == UNION {[1..n -> XVals] : n \in 1..MaxHeadLen} \cup {NotebookX}

\* head gradients of n elements
HeadInputs(n) == IF n <= MaxHeadLen THEN [1..n -> HeadVals] ELSE {NotebookHead}

VARIABLES
    pc,             \* the statement to execute next
    out,            \* what the notebook has printed
    demo,           \* the demonstration of the autograd notebook being run
    tape,           \* the Variables alive and the graph recorded over them
    env,            \* the notebook's names: the tape index each is bound to (0: unbound)
    head_gradient,  \* the tensor head_gradient
    iters,          \* iterations f's while loop has made
    branch,         \* the branch f's if took
    batch_size,     \* the batch size given to load_array
    data_iter,      \* the DataLoader load_array returned
    net,            \* the model: weight, bias and their .grad
    epoch,          \* the outer loop's variable
    sampler,        \* the running iterator over data_iter: the epoch's order, the position in it
    batch,          \* the mini-batch X, y of the inner loop, with its indices in the dataset
    ip,             \* the statement of the inner loop's body to execute next
    l,              \* the loss of the last forward pass and what its graph saved
    nsteps,         \* calls of trainer.step() so far
    done_ops,       \* what has been done with the current mini-batch, in order
    seen,           \* how often each example was delivered in the current epoch
    last_step,      \* the last call of trainer.step(): gradient used, update applied
    frame           \* a function called on its own: its arguments, locals and outcome

adVars == <<demo, tape, env, head_gradient, iters, branch>>

trainVars == <<batch_size, data_iter, net, epoch, sampler, batch, ip, l, nsteps,
               done_ops, seen, last_step>>

callVars == <<frame>>

vars == <<pc, out, adVars, trainVars, callVars>>

\* no function is being called on its own
NoFrame == [fn |-> "none"]

NoEnv == [x |-> 0, y |-> 0, z |-> 0, a |-> 0, b |-> 0, c |-> 0, d |-> 0]

Val(name) == tape[env[name]].val

Grad(name) == tape[env[name]].grad

(***************************************************************************)
(* Automatic_Differentiation.ipynb.  The recorded execution counts show    *)
(* the three demonstrations run in separate kernel sessions; each starts   *)
(* from an empty tape.                                                     *)
(***************************************************************************)
\* the other notebook's kernel is not running
TrainIdle ==
    /\ batch_size = 0
    /\ data_iter = None
    /\ net = None
    /\ epoch = 0
    /\ sampler = None
    /\ batch = None
    /\ ip = 0
    /\ l = None
    /\ nsteps = 0
    /\ done_ops = <<>>
    /\ seen = <<>>
    /\ last_step = None

InitAD ==
    /\ TrainIdle
    /\ frame = NoFrame
    /\ demo \in {"simple", "control", "head"}
    /\ pc = (CASE demo = "simple" -> "s_x" [] demo = "control" -> "c_a" [] OTHER -> "h_x")
    /\ out = <<>>
    /\ tape = <<>>
    /\ env = NoEnv
    /\ head_gradient = None
    /\ iters = 0
    /\ branch = "none"

\* x = Variable(torch.arange(4, dtype=torch.float32).reshape((4, 1)), requires_grad=True)
SimpleX ==
    /\ pc = "s_x"
    /\ \E xv \in XInputs :
          /\ tape' = Variable(tape, ColVec(xv), TRUE)
          /\ env' = [env EXCEPT !.x = Len(tape) + 1]
          /\ out' = Append(out, [line |-> "x", val |-> ColVec(xv)])
    /\ pc' = "s_y"
    /\ UNCHANGED <<demo, head_gradient, iters, branch, trainVars, callVars>>

\* y = 2 * torch.mm(x.t(), x); print(y)
SimpleY ==
    /\ pc = "s_y"
    /\ LET t1 == OpT(tape, env.x)
           t2 == OpMm(t1, Len(t1), env.x)
           t3 == OpMulC(t2, Len(t2), FInt(2))
       IN /\ tape' = t3
          /\ env' = [env EXCEPT !.y = Len(t3)]
          /\ out' = Append(out, [line |-> "y", val |-> t3[Len(t3)].val])
    /\ pc' = "s_bwd"
    /\ UNCHANGED <<demo, head_gradient, iters, branch, trainVars, callVars>>

\* y.backward()
SimpleBackward ==
    /\ pc = "s_bwd"
    /\ tape' = backward(tape, env.y, None)
    /\ pc' = "s_print"
    /\ UNCHANGED <<out, demo, env, head_gradient, iters, branch, trainVars, callVars>>

\* print("x.grad:", x.grad); print("x.grad_fn:", x.grad_fn); print("y.grad_fn:", y.grad_fn)
SimplePrint ==
    /\ pc = "s_print"
    /\ out' = out \o <<[line |-> "x.grad", val |-> Grad("x")],
                       [line |-> "x.grad_fn", val |-> tape[env.x].grad_fn],
                       [line |-> "y.grad_fn", val |-> tape[env.y].grad_fn]>>
    /\ pc' = "s_verify"
    /\ UNCHANGED <<adVars, trainVars, callVars>>

\* print((x.grad - 4 * x).norm().item() == 0); print(x.grad)
SimpleVerify ==
    /\ pc = "s_verify"
    /\ out' = out \o <<[line |-> "verify",
                        val |-> NormIsZero(TSub(Grad("x"), TMulC(Val("x"), FInt(4))))],
                       [line |-> "x.grad", val |-> Grad("x")]>>
    /\ pc' = "done"
    /\ UNCHANGED <<adVars, trainVars, callVars>>

\* a = torch.randn(size=(1,)); a.requires_grad = True
ControlA ==
    /\ pc = "c_a"
    /\ \E av \in AInputs : tape' = Variable(tape, Tensor(<<1>>, <<av>>), TRUE)
    /\ env' = [env EXCEPT !.a = Len(tape) + 1]
    /\ pc' = "f_b"
    /\ UNCHANGED <<out, demo, head_gradient, iters, branch, trainVars, callVars>>

\* d = f(a), entering f: b = a * 2
FEnter ==
    /\ pc = "f_b"
    /\ tape' = OpMulC(tape, env.a, FInt(2))
    /\ env' = [env EXCEPT !.b = Len(tape) + 1]
    /\ pc' = "f_while"
    /\ UNCHANGED <<out, demo, head_gradient, iters, branch, trainVars, callVars>>

\* while b.norm().item() < 1000
WhileCond == FLess(norm(Val("b")), FInt(1000))

\* the loop's body: b = b * 2
LoopBody(t, i) == OpMulC(t, i, FInt(2))

FLoop ==
    /\ pc = "f_while"
    /\ WhileCond
    /\ iters < MaxIters
    /\ tape' = LoopBody(tape, env.b)
    /\ env' = [env EXCEPT !.b = Len(tape) + 1]
    /\ iters' = iters + 1
    /\ UNCHANGED <<pc, out, demo, head_gradient, branch, trainVars, callVars>>

\* if b.sum().item() > 0
IfCond == FLess(FZero, TSum(Val("b")))

\* a slip in the else branch: c = 10 * b
ElseBranchTen(t, i) == OpMulC(t, i, FInt(10))

\* else: c = 100 * b

ElseBranch(t, i) == OpMulC(t, i, FInt(100))

\* the loop is left; c = b or c = 100 * b; return c, bound to d
FReturn ==
    /\ pc = "f_while"
    /\ ~WhileCond
    /\ IF IfCond
       THEN /\ tape' = tape
            /\ env' = [env EXCEPT !.c = env.b, !.d = env.b]
            /\ branch' = "then"
       ELSE /\ tape' = ElseBranch(tape, env.b)
            /\ env' = [env EXCEPT !.c = Len(tape) + 1, !.d = Len(tape) + 1]
            /\ branch' = "else"
    /\ pc' = "c_bwd"
    /\ UNCHANGED <<out, demo, head_gradient, iters, trainVars, callVars>>

\* d.backward()
ControlBackward ==
    /\ pc = "c_bwd"
    /\ tape' = backward(tape, env.d, None)
    /\ pc' = "c_print"
    /\ UNCHANGED <<out, demo, env, head_gradient, iters, branch, trainVars, callVars>>

\* print(a.grad == (d / a))
ControlPrint ==
    /\ pc = "c_print"
    /\ out' = Append(out, [line |-> "a.grad == d / a",
                           val |-> TEq(Grad("a"), TDiv(Val("d"), Val("a")))])
    /\ pc' = "done"
    /\ UNCHANGED <<adVars, trainVars, callVars>>

\* x = Variable(torch.tensor([[0.], [1.], [2.], [3.]]), requires_grad=True)
HeadX ==
    /\ pc = "h_x"
    /\ \E xv \in HeadXInputs : tape' = Variable(tape, ColVec(xv), TRUE)
    /\ env' = [env EXCEPT !.x = Len(tape) + 1]
    /\ pc' = "h_y"
    /\ UNCHANGED <<out, demo, head_gradient, iters, branch, trainVars, callVars>>

\* y = x * 2
HeadY ==
    /\ pc = "h_y"
    /\ tape' = OpMulC(tape, env.x, FInt(2))
    /\ env' = [env EXCEPT !.y = Len(tape) + 1]
    /\ pc' = "h_z"
    /\ UNCHANGED <<out, demo, head_gradient, iters, branch, trainVars, callVars>>

\* z = y * x
HeadZ ==
    /\ pc = "h_z"
    /\ tape' = OpMul(tape, env.y, env.x)
    /\ env' = [env EXCEPT !.z = Len(tape) + 1]
    /\ pc' = "h_head"
    /\ UNCHANGED <<out, demo, head_gradient, iters, branch, trainVars, callVars>>

\* head_gradient = torch.tensor([[10], [1.], [.1], [.01]])
HeadGradient ==
    /\ pc = "h_head"
    /\ \E hv \in HeadInputs(Len(Val("x").data)) :
          head_gradient' = Tensor(<<Len(hv), 1>>, hv)
    /\ pc' = "h_bwd"
    /\ UNCHANGED <<out, demo, tape, env, iters, branch, trainVars, callVars>>

\* z.backward(head_gradient)
HeadBackward ==
    /\ pc = "h_bwd"
    /\ tape' = backward(tape, env.z, head_gradient)
    /\ pc' = "h_print"
    /\ UNCHANGED <<out, demo, env, head_gradient, iters, branch, trainVars, callVars>>

\* print(x.grad)
HeadPrint ==
    /\ pc = "h_print"
    /\ out' = Append(out, [line |-> "x.grad", val |-> Grad("x")])
    /\ pc' = "done"
    /\ UNCHANGED <<adVars, trainVars, callVars>>

NextAD ==
    \/ SimpleX \/ SimpleY \/ SimpleBackward \/ SimplePrint \/ SimpleVerify
    \/ ControlA \/ FEnter \/ FLoop \/ FReturn \/ ControlBackward \/ ControlPrint
    \/ HeadX \/ HeadY \/ HeadZ \/ HeadGradient \/ HeadBackward \/ HeadPrint

SpecAD == InitAD /\ [][NextAD]_vars


(***************************************************************************)
(* Concise Implementation of Linear Regression (src/unnamed/part_000).     *)
(*                                                                         *)
(* Parameters, labels and gradients are fixed-point numbers, in hundredths *)
(* (0.01 is 1, 4.2 is 420); features are whole numbers, so predictions,    *)
(* residuals and gradients are exact, and the one rounding is that of      *)
(* lr * grad in the optimizer's update.  Losses are in units of 1e-4.      *)
(***************************************************************************)
\* examples in the data set (1000 in the notebook)
NumExamples == 3

\* batch sizes 1..MaxBatchSize are tried (10 in the notebook)
MaxBatchSize == 2

\* num_epochs = 3
num_epochs == 3

\* lr=0.03, as a fraction
LrNum == 3

LrDen == 100

\* true_w = torch.Tensor([2, -3.4]).view(-1, 1); true_b = 4.2
true_w == <<200, -340>>

true_b == 420

\* one draw of torch.normal(0, 1, (num_examples, len(w))), element (i, j)
Normal(i, j) == ((2 * i + 3 * j) % 5) - 2

\* one draw of torch.normal(0, 0.01, size=y.shape), element i
Noise(i) == (i % 3) - 1

RECURSIVE DotInt(_, _, _)
DotInt(u, v, k) == IF k = 0 THEN 0 ELSE DotInt(u, v, k - 1) + u[k] * v[k]

\* synthetic_data(w, b, num_examples): X and y = X w + b + noise
synthetic_data(w, b, num_examples) ==
    LET X == [i \in 1..num_examples |-> [j \in 1..Len(w) |-> Normal(i, j)]]
        y == [i \in 1..num_examples |-> DotInt(X[i], w, Len(w)) + b + Noise(i)]
    IN <<X, y>>

\* features, labels = synthetic_data(true_w, true_b, 1000)
features == synthetic_data(true_w, true_b, NumExamples)[1]

labels == synthetic_data(true_w, true_b, NumExamples)[2]

\* load_array(data_arrays, batch_size, is_train=True): the dataset is built from
\* the globals features and labels; the loader shuffles and keeps a last,
\* smaller batch (drop_last is left at False)
load_array(data_arrays, bs) ==
    [dataset |-> <<features, labels>>, batch_size |-> bs, shuffle |-> TRUE,
     drop_last |-> FALSE]

DatasetLen(loader) == Len(loader.dataset[1])

\* a / b rounded to the nearest whole number, for b > 0
RoundDiv(a, b) == (2 * a + b) \div (2 * b)

CeilDiv(a, b) == (a + b - 1) \div b

Min(a, b) == IF a < b THEN a ELSE b

\* net(X): the predictions of the linear layer for the rows of X
Forward(model, X) ==
    [i \in 1..Len(X) |-> DotInt(X[i], model.weight, Len(model.weight)) + model.bias]

\* loss = torch.nn.MSELoss(reduction="sum")
reduction == "sum"

RECURSIVE SumSqDiff(_, _, _)
SumSqDiff(pred, y, k) ==
    IF k = 0 THEN 0 ELSE SumSqDiff(pred, y, k - 1) + (pred[k] - y[k]) * (pred[k] - y[k])

loss(pred, y) ==
    IF reduction = "sum" THEN SumSqDiff(pred, y, Len(y))
    ELSE RoundDiv(SumSqDiff(pred, y, Len(y)), Len(y))

\* sum over the first k rows of 2 * (pred - y) * X[., j]   (j = 0: of 2 * (pred - y))
RECURSIVE GradSum(_, _, _, _, _)
GradSum(pred, y, X, j, k) ==
    IF k = 0 THEN 0
    ELSE GradSum(pred, y, X, j, k - 1)
            + 2 * (pred[k] - y[k]) * (IF j = 0 THEN 1 ELSE X[k][j])

\* the gradient of loss(net(X), y) in weight and bias, from what the forward
\* pass saved
LossGrad(saved) ==
    LET n  == Len(saved.y)
        gw == [j \in 1..Len(saved.X[1]) |-> GradSum(saved.pred, saved.y, saved.X, j, n)]
        gb == GradSum(saved.pred, saved.y, saved.X, 0, n)
    IN IF reduction = "sum" THEN [weight |-> gw, bias |-> gb]
       ELSE [weight |-> [j \in 1..Len(gw) |-> RoundDiv(gw[j], n)], bias |-> RoundDiv(gb, n)]

\* trainer.step(): torch.optim.SGD takes no batch size; each parameter with a
\* .grad moves by -lr * grad
SgdDelta(g) == RoundDiv(LrNum * g, LrDen)

\* the inner loop's body, statement by statement
RitualStepFirst == <<"forward", "zero_grad", "step", "backward">>

Ritual == <<"forward", "zero_grad", "backward", "step">>

\* the DataLoader's iterator is exhausted (drop_last=True would stop before an
\* incomplete batch)
ExhaustedDropLast(pos, n, bs) == pos + bs > n

Exhausted(pos, n, bs) == pos >= n

\* the epoch number printed: 'epoch {}'.format(epoch + 1, ...)
EpochNumberRaw(e) == e

EpochNumber(e) == e + 1

RECURSIVE Perms(_)
Perms(S) ==
    IF S = {} THEN {<<>>}
    ELSE UNION {{<<x>> \o q : q \in Perms(S \ {x})} : x \in S}

NoGrad == [weight |-> <<>>, bias |-> 0, set |-> FALSE]

ADIdle ==
    /\ demo = "none"
    /\ tape = <<>>
    /\ env = NoEnv
    /\ head_gradient = None
    /\ iters = 0
    /\ branch = "none"

\* the state after the cells above the training loop have run: the data set,
\* data_iter = load_array((features, labels), batch_size), net with
\* weight ~ N(0, 0.01) and bias 0, loss, trainer
InitTrain ==
    /\ ADIdle
    /\ frame = NoFrame
    /\ batch_size \in 1..MaxBatchSize
    /\ data_iter = load_array(<<features, labels>>, batch_size)
    /\ net = [weight |-> <<1, -1>>, bias |-> 0, grad |-> NoGrad]
    /\ epoch = 0
    /\ sampler = None
    /\ batch = None
    /\ ip = 0
    /\ l = None
    /\ nsteps = 0
    /\ done_ops = <<>>
    /\ seen = [i \in 1..NumExamples |-> 0]
    /\ last_step = None
    /\ out = <<>>
    /\ pc = "for_epoch"

\* for epoch in range(num_epochs): ... for X, y in data_iter: a new pass over the
\* loader starts, in an order the sampler draws
EpochBegin ==
    /\ pc = "for_epoch"
    /\ epoch < num_epochs
    /\ \E order \in Perms(1..DatasetLen(data_iter)) :
          sampler' = [order |-> order, pos |-> 0]
    /\ seen' = [i \in 1..DatasetLen(data_iter) |-> 0]
    /\ pc' = "next_batch"
    /\ UNCHANGED <<out, batch_size, data_iter, net, epoch, batch, ip, l, nsteps,
                   done_ops, last_step, adVars, callVars>>

\* range(num_epochs) is exhausted
TrainEnd ==
    /\ pc = "for_epoch"
    /\ epoch >= num_epochs
    /\ pc' = "done"
    /\ UNCHANGED <<out, adVars, trainVars, callVars>>

\* for X, y in data_iter: the next mini-batch
NextBatch ==
    /\ pc = "next_batch"
    /\ ~Exhausted(sampler.pos, DatasetLen(data_iter), data_iter.batch_size)
    /\ LET last == Min(sampler.pos + data_iter.batch_size, DatasetLen(data_iter))
           idx  == SubSeq(sampler.order, sampler.pos + 1, last)
       IN /\ batch' = [idx |-> idx,
                       X |-> [k \in 1..Len(idx) |-> data_iter.dataset[1][idx[k]]],
                       y |-> [k \in 1..Len(idx) |-> data_iter.dataset[2][idx[k]]]]
          /\ sampler' = [sampler EXCEPT !.pos = last]
          /\ seen' = [i \in DOMAIN seen |->
                        seen[i] + Cardinality({k \in 1..Len(idx) : idx[k] = i})]
    /\ done_ops' = <<>>
    /\ ip' = 1
    /\ pc' = "body"
    /\ UNCHANGED <<out, batch_size, data_iter, net, epoch, l, nsteps, last_step, adVars, callVars>>

\* the inner loop's body moves on to its next statement, or back to the loop
AdvanceTo(op) ==
    /\ done_ops' = Append(done_ops, op)
    /\ IF ip < Len(Ritual)
       THEN ip' = ip + 1 /\ pc' = "body"
       ELSE ip' = 0 /\ pc' = "next_batch"

\* l = loss(net(X), y)
ForwardPass ==
    /\ pc = "body" /\ Ritual[ip] = "forward"
    /\ LET pred == Forward(net, batch.X)
       IN l' = [val |-> loss(pred, batch.y),
                saved |-> [pred |-> pred, X |-> batch.X, y |-> batch.y],
                idx |-> batch.idx, version |-> nsteps]
    /\ AdvanceTo([op |-> "forward", idx |-> batch.idx, version |-> nsteps, at |-> nsteps])
    /\ UNCHANGED <<out, batch_size, data_iter, net, epoch, sampler, batch, nsteps,
                   seen, last_step, adVars, callVars>>

\* trainer.zero_grad()
ZeroGrad ==
    /\ pc = "body" /\ Ritual[ip] = "zero_grad"
    /\ net' = [net EXCEPT !.grad = NoGrad]
    /\ AdvanceTo([op |-> "zero_grad", idx |-> batch.idx, version |-> nsteps, at |-> nsteps])
    /\ UNCHANGED <<out, batch_size, data_iter, epoch, sampler, batch, l, nsteps,
                   seen, last_step, adVars, callVars>>

\* l.backward(): the gradient of l is added to the parameters' .grad
BackwardPass ==
    /\ pc = "body" /\ Ritual[ip] = "backward"
    /\ LET g == LossGrad(l.saved)
       IN net' = [net EXCEPT !.grad =
                     IF @.set
                     THEN [weight |-> [j \in 1..Len(g.weight) |-> @.weight[j] + g.weight[j]],
                           bias |-> @.bias + g.bias, set |-> TRUE]
                     ELSE [weight |-> g.weight, bias |-> g.bias, set |-> TRUE]]
    /\ AdvanceTo([op |-> "backward", idx |-> l.idx, version |-> l.version, at |-> nsteps])
    /\ UNCHANGED <<out, batch_size, data_iter, epoch, sampler, batch, l, nsteps,
                   seen, last_step, adVars, callVars>>

\* trainer.step()
Step ==
    /\ pc = "body" /\ Ritual[ip] = "step"
    /\ LET g  == net.grad
           dw == [j \in 1..Len(net.weight) |-> IF g.set THEN SgdDelta(g.weight[j]) ELSE 0]
           db == IF g.set THEN SgdDelta(g.bias) ELSE 0
       IN /\ net' = [net EXCEPT !.weight = [j \in 1..Len(net.weight) |-> @[j] - dw[j]],
                                !.bias = @ - db]
          /\ last_step' = [n |-> Len(batch.idx), idx |-> batch.idx,
                           before |-> [weight |-> net.weight, bias |-> net.bias],
                           grad |-> g, dweight |-> dw, dbias |-> db]
    /\ nsteps' = nsteps + 1
    /\ AdvanceTo([op |-> "step", idx |-> batch.idx, version |-> nsteps, at |-> nsteps])
    /\ UNCHANGED <<out, batch_size, data_iter, epoch, sampler, batch, l, seen, adVars, callVars>>

\* the inner loop is over: l_epoch = loss(net(features), labels);
\* print('epoch {}, loss {}'.format(epoch + 1, l_epoch)); the outer loop moves on
EpochLoss ==
    /\ pc = "next_batch"
    /\ Exhausted(sampler.pos, DatasetLen(data_iter), data_iter.batch_size)
    /\ out' = Append(out, [line |-> "epoch", epoch |-> EpochNumber(epoch),
                           loss |-> loss(Forward(net, features), labels),
                           n |-> Len(labels), at |-> nsteps,
                           params |-> [weight |-> net.weight, bias |-> net.bias]])
    /\ epoch' = epoch + 1
    /\ pc' = "for_epoch"
    /\ UNCHANGED <<batch_size, data_iter, net, sampler, batch, ip, l, nsteps,
                   done_ops, seen, last_step, adVars, callVars>>

NextTrain ==
    \/ EpochBegin \/ NextBatch \/ ForwardPass \/ ZeroGrad \/ BackwardPass \/ Step
    \/ EpochLoss \/ TrainEnd

SpecTrain == InitTrain /\ [][NextTrain]_vars

\* the cell runs to its end: a statement that can execute does
FairSpecTrain == InitTrain /\ [][NextTrain]_vars /\ WF_vars(NextTrain)

(***************************************************************************)
(* load_array called on its own (src/unnamed/part_000), with the kernel's  *)
(* globals features and labels in place, and the loader it returns read    *)
(* through once.                                                           *)
(***************************************************************************)
\* a weight vector other than true_w, for arrays other than the globals
other_w == <<100, 0>>

\* the pairs of arrays a caller passes: the globals, and data sets drawn with
\* another weight vector or of another length
ArrayInputs ==
    {<<synthetic_data(w, true_b, n)[1], synthetic_data(w, true_b, n)[2]>> :
        w \in {true_w, other_w}, n \in {NumExamples - 1, NumExamples}}

\* row i of the arrays, as the dataset built from them would return it
Row(arrays, i) == [X |-> arrays[1][i], y |-> arrays[2][i]]

InitLoad ==
    /\ ADIdle
    /\ TrainIdle
    /\ out = <<>>
    /\ \E arrays \in ArrayInputs, bs \in 1..MaxBatchSize :
          frame = [fn |-> "load_array", data_arrays |-> arrays, batch_size |-> bs,
                   dataloader |-> None, order |-> <<>>, pos |-> 0, batches |-> <<>>]
    /\ pc = "la_call"

\* dataloader = load_array(data_arrays, batch_size)
LoadArrayCall ==
    /\ pc = "la_call"
    /\ frame' = [frame EXCEPT !.dataloader = load_array(frame.data_arrays, frame.batch_size)]
    /\ pc' = "la_iter"
    /\ UNCHANGED <<out, adVars, trainVars>>

\* for X, y in dataloader: the sampler draws the order of the pass
LoaderIter ==
    /\ pc = "la_iter"
    /\ \E order \in Perms(1..DatasetLen(frame.dataloader)) :
          frame' = [frame EXCEPT !.order = order, !.pos = 0]
    /\ pc' = "la_next"
    /\ UNCHANGED <<out, adVars, trainVars>>

\* the loader yields its next mini-batch
LoaderNext ==
    /\ pc = "la_next"
    /\ ~Exhausted(frame.pos, DatasetLen(frame.dataloader), frame.dataloader.batch_size)
    /\ LET last == Min(frame.pos + frame.dataloader.batch_size,
                       DatasetLen(frame.dataloader))
           idx  == SubSeq(frame.order, frame.pos + 1, last)
           b    == [idx |-> idx,
                    X |-> [k \in 1..Len(idx) |-> frame.dataloader.dataset[1][idx[k]]],
                    y |-> [k \in 1..Len(idx) |-> frame.dataloader.dataset[2][idx[k]]]]
       IN frame' = [frame EXCEPT !.pos = last, !.batches = Append(@, b)]
    /\ UNCHANGED <<pc, out, adVars, trainVars>>

\* the loader is exhausted
LoaderStop ==
    /\ pc = "la_next"
    /\ Exhausted(frame.pos, DatasetLen(frame.dataloader), frame.dataloader.batch_size)
    /\ pc' = "done"
    /\ UNCHANGED <<out, frame, adVars, trainVars>>

NextLoad == LoadArrayCall \/ LoaderIter \/ LoaderNext \/ LoaderStop

SpecLoad == InitLoad /\ [][NextLoad]_vars

(***************************************************************************)
(* synthetic_data called on its own (src/unnamed/part_000), followed       *)
(* statement by statement at the level of the shapes of its tensors, which *)
(* is what its assertion reads.                                            *)
(***************************************************************************)
\* weight vectors have 1..MaxDim rows
MaxDim == 3

\* two-dimensional weights have 1..MaxCols columns (1 in the notebook)
MaxCols == 2

\* shapes of w: (d,) and (d, k)
WShapes ==
    {<<d>> : d \in 1..MaxDim} \cup {<<d, k>> : d \in 1..MaxDim, k \in 1..MaxCols}

\* the shape of torch.normal(mean, std, size)
NormalShape(size) == size

\* a @ b is defined for a two-dimensional a: the inner sizes agree
MatmulDefined(a, b) == a[2] = b[1]

\* the shape of a @ b for a two-dimensional a: the rows of a, with the columns
\* of b when b is two-dimensional
MatmulShapeInner(a, b) == IF Len(b) = 1 THEN <<a[2]>> ELSE <<a[2], b[2]>>

MatmulShape(a, b) == IF Len(b) = 1 THEN <<a[1]>> ELSE <<a[1], b[2]>>

\* the shape of t + b for the Python number b
AddScalarShape(t) == t

InitData ==
    /\ ADIdle
    /\ TrainIdle
    /\ out = <<>>
    /\ \E ws \in WShapes, n \in 0..NumExamples :
          frame = [fn |-> "synthetic_data", w |-> ws, num_examples |-> n,
                   X |-> <<>>, y |-> <<>>, outcome |-> "running"]
    /\ pc = "sd_X"

\* X = torch.normal(0, 1, (num_examples, w.shape[0]))
SdNormal ==
    /\ pc = "sd_X"
    /\ frame' = [frame EXCEPT !.X = NormalShape(<<frame.num_examples, frame.w[1]>>)]
    /\ pc' = "sd_y"
    /\ UNCHANGED <<out, adVars, trainVars>>

\* y = X @ w + b
SdMatmul ==
    /\ pc = "sd_y"
    /\ IF MatmulDefined(frame.X, frame.w)
       THEN /\ frame' = [frame EXCEPT
                            !.y = AddScalarShape(MatmulShape(frame.X, frame.w))]
            /\ pc' = "sd_noise"
       ELSE /\ frame' = [frame EXCEPT !.outcome = "RuntimeError"]
            /\ pc' = "done"
    /\ UNCHANGED <<out, adVars, trainVars>>

\* y += torch.normal(0, 0.01, size=y.shape)
SdNoise ==
    /\ pc = "sd_noise"
    /\ IF NormalShape(frame.y) = frame.y
       THEN pc' = "sd_assert" /\ UNCHANGED frame
       ELSE pc' = "done" /\ frame' = [frame EXCEPT !.outcome = "RuntimeError"]
    /\ UNCHANGED <<out, adVars, trainVars>>

\* assert X.shape[0] == y.shape[0], ...
SdAssert ==
    /\ pc = "sd_assert"
    /\ IF frame.X[1] = frame.y[1]
       THEN pc' = "sd_return" /\ UNCHANGED frame
       ELSE pc' = "done" /\ frame' = [frame EXCEPT !.outcome = "AssertionError"]
    /\ UNCHANGED <<out, adVars, trainVars>>

\* X.type(torch.FloatTensor); y.type(torch.FloatTensor); return X, y
SdReturn ==
    /\ pc = "sd_return"
    /\ frame' = [frame EXCEPT !.outcome = "returned"]
    /\ pc' = "done"
    /\ UNCHANGED <<out, adVars, trainVars>>

NextData == SdNormal \/ SdMatmul \/ SdNoise \/ SdAssert \/ SdReturn

SpecData == InitData /\ [][NextData]_vars

(***************************************************************************)
(* Properties of Automatic_Differentiation.ipynb                           *)
(***************************************************************************)
\* the integer an integer-valued float32 stands for
FToInt(x) ==
    (IF x.s = 1 THEN -1 ELSE 1)
        * (IF x.e >= 0 THEN x.m * Pow2(x.e) ELSE x.m \div Pow2(-x.e))

\* the sum of the squares of the first k elements, in the integers
RECURSIVE SumSq(_, _)
SumSq(t, k) == IF k = 0 THEN 0 ELSE SumSq(t, k - 1) + FToInt(t.data[k]) * FToInt(t.data[k])

FReturned == demo = "control" /\ pc \in {"c_bwd", "c_print", "done"}

\* the constant of f on the path taken: a factor 2 for b = a * 2 and for each
\* iteration of the loop, and 100 in the else branch
PathConstant == FInt(Pow2(1 + iters) * (IF branch = "else" THEN 100 ELSE 1))

\* C5: f is piecewise linear: whenever f has returned d for an input a, d = g * a
\* for the constant g fixed by the number of loop iterations and the branch taken.
C5_PiecewiseLinear ==
    FReturned => Val("d") = TMulC(Val("a"), PathConstant)

C5_Witness ==
    FReturned /\ branch = "else" /\ iters >= 9 /\ Val("a").data[1].m = 12582912

\* C6: after d = f(a); d.backward() the stored a.grad equals d / a, as
\* print(a.grad == (d / a)) tests.
C6_GradEqualsDOverA ==
    (demo = "control" /\ pc \in {"c_print", "done"})
        => \A i \in 1..1 : TEq(Grad("a"), TDiv(Val("d"), Val("a")))[i]

\* C7: y = 2 * mm(x^T, x) is the 1 x 1 tensor 2 * sum x_i^2 (28 for arange(4)); after
\* y.backward(), x.grad = 4 * x elementwise and the notebook's test prints True.
C7_GradientIs4x ==
    /\ (demo = "simple" /\ env.y # 0)
          => /\ Val("y") = Tensor(<<1, 1>>, [i \in 1..1 |-> FInt(2 * SumSq(Val("x"), Len(Val("x").data)))])
             /\ (Val("x") = ColVec(NotebookX) => Val("y").data[1] = FInt(28))
    /\ (demo = "simple" /\ pc \in {"s_print", "s_verify", "done"})
          => /\ Grad("x").shape = Val("x").shape
             /\ \A i \in 1..Len(Val("x").data) :
                   Grad("x").data[i] = FMul(FInt(4), Val("x").data[i])
    /\ (demo = "simple" /\ pc = "done")
          => \A k \in 1..Len(out) : out[k].line = "verify" => out[k].val = TRUE

C7_Witness ==
    /\ demo = "simple" /\ pc = "done"
    /\ Val("x") = ColVec(NotebookX)
    /\ Val("y").data[1] = FInt(28)
    /\ Grad("x") = ColVec(<<0, 4, 8, 12>>)

\* C8: with y = x * 2 and z = y * x, z.backward(head_gradient) stores
\* x.grad[i] = head_gradient[i] * 4 * x[i] for every i.
C8_HeadGradient ==
    (demo = "head" /\ pc \in {"h_print", "done"})
        => /\ Grad("x").shape = Val("x").shape
           /\ \A i \in 1..Len(Val("x").data) :
                 Grad("x").data[i]
                    = FMul(FMul(head_gradient.data[i], FInt(4)), Val("x").data[i])

C8_Witness ==
    /\ demo = "head" /\ pc = "done"
    /\ Val("x") = ColVec(NotebookX)
    /\ head_gradient.data = NotebookHead
    /\ Grad("x").data[2] = FInt(4)
    /\ Grad("x").data[3] = [s |-> 0, m |-> 13421773, e |-> -24]

\* a no-argument backward has run on the root named `root`
AfterPlainBackward(root) ==
    \/ root = "y" /\ demo = "simple" /\ pc \in {"s_print", "s_verify", "done"}
    \/ root = "d" /\ demo = "control" /\ pc \in {"c_print", "done"}

C10_GradFn ==
    /\ \A k \in 1..Len(tape) :
          /\ tape[k].op = "leaf" => tape[k].grad_fn = "None"
          /\ tape[k].op # "leaf" => tape[k].grad_fn # "None"
    /\ \A k \in 1..Len(out) :
          /\ out[k].line = "x.grad_fn" => out[k].val = "None"
          /\ out[k].line = "y.grad_fn" => out[k].val = "MulBackward0"

C10_Witness ==
    /\ demo = "simple" /\ pc = "done"
    /\ Len(tape) = 4
    /\ tape[env.y].grad_fn = "MulBackward0"
    /\ tape[env.x].grad_fn = "None"
    /\ tape[env.x].grad # None


(***************************************************************************)
(* Properties of the linear-regression training loop.                      *)
(***************************************************************************)
IsRitualOp(r) == r.op # "zero_grad"

\* the forward / backward / step records of the current mini-batch
RitualOps == SelectSeq(done_ops, IsRitualOp)

RitualOrder == <<"forward", "backward", "step">>

BatchDone == pc = "next_batch" /\ ip = 0 /\ batch # None

\* C1: every mini-batch goes through forward, backward, step in this order with
\* none skipped; a step comes right after the backward of the same mini-batch,
\* which follows that mini-batch's forward; the loss a backward runs on was
\* computed from the parameters as they are at the backward (no step between).
C1_RitualOrder ==
    /\ Len(RitualOps) <= Len(RitualOrder)
    /\ \A k \in 1..Len(RitualOps) :
          /\ RitualOps[k].op = RitualOrder[k]
          /\ RitualOps[k].idx = batch.idx
          /\ RitualOps[k].version = RitualOps[k].at
    /\ \A k \in 1..Len(done_ops) :
          done_ops[k].op = "step"
              => /\ k > 1
                 /\ done_ops[k - 1].op = "backward"
                 /\ done_ops[k - 1].idx = done_ops[k].idx
    /\ BatchDone => Len(RitualOps) = Len(RitualOrder)

C1_Witness ==
    /\ BatchDone
    /\ Len(RitualOps) = 3
    /\ nsteps >= 2
    /\ Len(batch.idx) = 2

StepsPerEpoch == CeilDiv(NumExamples, batch_size)

EpochPassComplete ==
    /\ \A i \in DOMAIN seen : seen[i] <= 1
    /\ (pc = "next_batch"
          /\ Exhausted(sampler.pos, DatasetLen(data_iter), data_iter.batch_size))
         => \A i \in 1..NumExamples : seen[i] = 1
    /\ pc = "for_epoch" => nsteps = epoch * StepsPerEpoch
    /\ pc = "done" => nsteps = num_epochs * StepsPerEpoch

\* C2: in every epoch each of the N examples is delivered in exactly one
\* mini-batch, whatever order the sampler draws, and the loop terminates, after
\* exactly num_epochs * ceil(N / batch_size) optimizer steps.
C2_CompletePasses == [](EpochPassComplete) /\ <>(pc = "done")

C2_Witness ==
    /\ pc = "done"
    /\ batch_size = 2
    /\ nsteps = 6
    /\ \A i \in 1..NumExamples : seen[i] = 1

\* C3: the epoch loss is printed once per epoch, after the epoch's last update
\* and before the next epoch's first mini-batch, over all of features and labels
\* with the parameters the epoch ended with; the epoch numbers printed are
\* 1, 2, ..., num_epochs.
C3_EpochLoss ==
    /\ Len(out) = epoch
    /\ epoch <= num_epochs
    /\ pc = "done" => Len(out) = num_epochs
    /\ \A k \in 1..Len(out) :
          /\ out[k].epoch = k
          /\ out[k].at = k * StepsPerEpoch
          /\ out[k].n = NumExamples
          /\ out[k].loss = loss(Forward(out[k].params, features), labels)
    /\ (pc = "for_epoch" /\ epoch > 0)
         => /\ out[epoch].params = [weight |-> net.weight, bias |-> net.bias]
            /\ out[epoch].params.bias = last_step.before.bias - last_step.dbias
            /\ \A j \in 1..Len(net.weight) :
                  out[epoch].params.weight[j]
                      = last_step.before.weight[j] - last_step.dweight[j]

C3_Witness ==
    /\ pc = "done"
    /\ Len(out) = num_epochs
    /\ out[num_epochs].epoch = num_epochs
    /\ out[num_epochs].loss < out[1].loss

Abs(n) == IF n < 0 THEN -n ELSE n

\* delta is lr * g / n, to the nearest hundredth
IsMeanUpdate(delta, g, n) == 2 * Abs(LrDen * n * delta - LrNum * g) <= LrDen * n

\* C4: the update a step applies to weight and bias is the learning rate times
\* the gradient of the mini-batch loss divided by the number of examples in the
\* mini-batch (the mean over the batch, not the sum).
C4_UpdateIsMeanGradient ==
    (last_step # None /\ last_step.grad.set)
        => /\ IsMeanUpdate(last_step.dbias, last_step.grad.bias, last_step.n)
           /\ \A j \in 1..Len(last_step.dweight) :
                 IsMeanUpdate(last_step.dweight[j], last_step.grad.weight[j],
                              last_step.n)


(***************************************************************************)
(* Properties of load_array.                                               *)
(***************************************************************************)
\* the rows of a mini-batch are rows of the arrays, at the indices drawn
DrawnFrom(b, arrays) ==
    \A k \in 1..Len(b.idx) :
        /\ b.idx[k] \in 1..Len(arrays[1])
        /\ b.X[k] = Row(arrays, b.idx[k]).X
        /\ b.y[k] = Row(arrays, b.idx[k]).y

\* C11: the mini-batches the loader returned by load_array(data_arrays,
\* batch_size) yields are drawn from the arrays passed as data_arrays, and one
\* pass delivers as many examples as those arrays hold.
C11_BatchesFromArgument ==
    frame.fn = "load_array"
        => /\ \A i \in 1..Len(frame.batches) :
                 DrawnFrom(frame.batches[i], frame.data_arrays)
           /\ pc = "done" => frame.pos = Len(frame.data_arrays[1])


(***************************************************************************)
(* Properties of synthetic_data.                                           *)
(***************************************************************************)
\* C12: for every w of shape (d,) or (d, k) with d >= 1 and every
\* num_examples >= 0 the assertion X.shape[0] == y.shape[0] of synthetic_data
\* holds when it is reached: no call ends in an AssertionError, and every call
\* returns X of num_examples rows and y with as many.
C12_AssertionHolds ==
    frame.fn = "synthetic_data"
        => /\ frame.outcome # "AssertionError"
           /\ pc = "sd_assert" => frame.X[1] = frame.y[1]
           /\ pc = "done"
                => /\ frame.outcome = "returned"
                   /\ frame.X = <<frame.num_examples, frame.w[1]>>
                   /\ frame.y[1] = frame.num_examples

C12_Witness ==
    /\ frame.fn = "synthetic_data"
    /\ pc = "done"
    /\ frame.outcome = "returned"
    /\ frame.num_examples = 0
    /\ frame.w = <<2>>

=============================================================================
